---- MODULE Spec2Model ----
(***************************************************************************)
(* The task scheduler of AikoClient (client-aiko): a fixed registry of     *)
(* recurring tasks polled by a one-second interval timer.  Every timer     *)
(* callback runs the synchronous head of processNextTask (read the clock,  *)
(* find the first eligible task, mark it running) and leaves the awaited   *)
(* task body outstanding; the body settles later, by returning or by       *)
(* throwing, and the catch/finally blocks then run without interruption.   *)
(* Time is in milliseconds, as returned by Date.now().                     *)
(***************************************************************************)
EXTENDS Integers, Sequences, FiniteSets, TLC

\* ---------------------------------------------------------------- bounds
\* Number of timer callbacks explored after construction.
MaxTicks == 7
\* A task body that resolves does so within this many timer periods.
MaxBodyTicks == 1
\* Number of task bodies that may never resolve in one behaviour.
MaxHung == 1
\* Wall-clock readings at construction: a clock still near the epoch, and a
\* clock further from the epoch than every minInterval.
EarlyStart == 4000
LateStart == 100000

\* ------------------------------------------------------------- constants
\* setInterval(..., 1000)
TickPeriod == 1000

\* An optional field that was never assigned (lastRun?: number).
Undefined == -1

\* Variant: a registry whose first task has no minimum interval.
EagerTaskQueue ==
    << [name |-> "readGifts", priority |-> 1, minInterval |-> 0,
        lastRun |-> Undefined, isRunning |-> FALSE],
       [name |-> "readChatAndReply", priority |-> 2, minInterval |-> 1000 * 20,
        lastRun |-> Undefined, isRunning |-> FALSE],
       [name |-> "readAndRespondToTopLikers", priority |-> 3, minInterval |-> 1000 * 90,
        lastRun |-> Undefined, isRunning |-> FALSE],
       [name |-> "generateFreshThought", priority |-> 4, minInterval |-> 1000 * 30 * 1,
        lastRun |-> Undefined, isRunning |-> FALSE],
       [name |-> "readAgentChatAndReply", priority |-> 4, minInterval |-> 1000 * 60 * 1,
        lastRun |-> Undefined, isRunning |-> FALSE],
       [name |-> "generatePeriodicAnimation", priority |-> 5, minInterval |-> 1000 * 20,
        lastRun |-> Undefined, isRunning |-> FALSE],
       [name |-> "heartbeat", priority |-> 5, minInterval |-> 1000 * 5,
        lastRun |-> Undefined, isRunning |-> FALSE] >>

\* The registry as constructed: no lastRun, isRunning falsy.
InitialTaskQueue ==
    << [name |-> "readGifts", priority |-> 1, minInterval |-> 1000 * 25,
        lastRun |-> Undefined, isRunning |-> FALSE],
       [name |-> "readChatAndReply", priority |-> 2, minInterval |-> 1000 * 20,
        lastRun |-> Undefined, isRunning |-> FALSE],
       [name |-> "readAndRespondToTopLikers", priority |-> 3, minInterval |-> 1000 * 90,
        lastRun |-> Undefined, isRunning |-> FALSE],
       [name |-> "generateFreshThought", priority |-> 4, minInterval |-> 1000 * 30 * 1,
        lastRun |-> Undefined, isRunning |-> FALSE],
       [name |-> "readAgentChatAndReply", priority |-> 4, minInterval |-> 1000 * 60 * 1,
        lastRun |-> Undefined, isRunning |-> FALSE],
       [name |-> "generatePeriodicAnimation", priority |-> 5, minInterval |-> 1000 * 20,
        lastRun |-> Undefined, isRunning |-> FALSE],
       [name |-> "heartbeat", priority |-> 5, minInterval |-> 1000 * 5,
        lastRun |-> Undefined, isRunning |-> FALSE] >>

Tasks == 1..Len(InitialTaskQueue)

\* How the awaited body of each task can settle.  readGifts awaits
\* fetchUnreadGifts and processGift with no try/catch of its own, and
\* heartbeat awaits updateStreamingStatus, which rethrows; every other body
\* is wrapped in a try/catch that only logs.
BodyOutcomes(name) ==
    IF name \in {"readGifts", "heartbeat"}
    THEN {"returned", "threw"}
    ELSE {"returned"}

\* ----------------------------------------------------------------- state
VARIABLES
    now,            \* the wall clock, Date.now()
    ticks,          \* timer callbacks fired so far
    taskQueue,      \* this.taskQueue
    eligibleTask,   \* index found by the latest callback, 0 when none
    pending,        \* per task: processNextTask invocations awaiting its body
    hung,           \* tasks whose outstanding body never resolves
    lastStart,      \* per task: clock reading when it was last selected
    lastEnd,        \* per task: clock reading when its body last settled
    bodyOutcome,    \* per task: how its body last settled
    errorLog,       \* names printed by the catch block of processNextTask
    tickRejected,   \* some processNextTask promise was rejected
    lastProcessedTimestamp,   \* this.lastProcessedTimestamp
    lastAgentChatMessageId,   \* this.lastAgentChatMessageId
    run,            \* the invocation followed call by call, if any
    taskInterval,   \* this.taskInterval: whether the interval timer is set
    stopped,        \* "no" until stop is called, then "called", and "ticked"
                    \* once a tick has selected a task since the latest call
    inbox,          \* the comments addressed to the agent, at the server
    room            \* the messages of the shared peer room, at the server

vars == << now, ticks, taskQueue, eligibleTask, pending, hung,
           lastStart, lastEnd, bodyOutcome, errorLog, tickRejected,
           lastProcessedTimestamp, lastAgentChatMessageId, run,
           taskInterval, stopped, inbox, room >>

\* ------------------------------------------------------- processNextTask
\* task.lastRun || 0
LastRunOrZero(task) ==
    IF task.lastRun = Undefined \/ task.lastRun = 0 THEN 0 ELSE task.lastRun

\* Variant: the interval test is dropped from the predicate.
EligibleIgnoringInterval(task, t) == ~task.isRunning

\* The predicate handed to taskQueue.find.
Eligible(task, t) ==
    LET timeElapsed == t - LastRunOrZero(task)
    IN  ~task.isRunning /\ timeElapsed >= task.minInterval

\* Array.prototype.find: scan from the front, stop at the first match.
\* Returns the index of the match, 0 when there is none.
RECURSIVE FindFrom(_, _, _)
FindFrom(queue, t, i) ==
    IF i > Len(queue) THEN 0
    ELSE IF Eligible(queue[i], t) THEN i
    ELSE FindFrom(queue, t, i + 1)

\* Variant: the scheduler refuses to start anything while any task runs.
FindUnlessBusy(queue, t) ==
    IF \E i \in 1..Len(queue) : queue[i].isRunning THEN 0
    ELSE FindFrom(queue, t, 1)

\* Variant: the last match is taken instead of the first.
RECURSIVE FindLastFrom(_, _, _)
FindLastFrom(queue, t, i) ==
    IF i < 1 THEN 0
    ELSE IF Eligible(queue[i], t) THEN i
    ELSE FindLastFrom(queue, t, i - 1)

FindLast(queue, t) == FindLastFrom(queue, t, Len(queue))

\* Variant: with no match the first task of the registry is taken.
FindOrFirst(queue, t) ==
    IF FindFrom(queue, t, 1) = 0 THEN 1 ELSE FindFrom(queue, t, 1)

Find(queue, t) == FindFrom(queue, t, 1)

\* Variant: the flag is not set before the first await.
MarkRunningLate(queue, i) == queue

\* eligibleTask.isRunning = true
MarkRunning(queue, i) == [queue EXCEPT ![i].isRunning = TRUE]

\* Variant: the flag is cleared but lastRun is not refreshed.
FinallyClearsOnly(queue, i, t, outcome) ==
    [queue EXCEPT ![i].isRunning = FALSE]

\* Variant: the finally block clears the flag of every task.
FinallyClearsAll(queue, i, t, outcome) ==
    [j \in DOMAIN queue |->
        IF j = i THEN [queue[j] EXCEPT !.lastRun = t, !.isRunning = FALSE]
        ELSE [queue[j] EXCEPT !.isRunning = FALSE]]

\* Variant: the finally block stamps lastRun and leaves the flag set.
FinallyLeavesFlag(queue, i, t, outcome) ==
    [queue EXCEPT ![i].lastRun = t]

\* Variant: lastRun is stamped at the end of the try block, so only when the
\* body returned; the flag is cleared in the finally block.
FinallyStampsOnSuccess(queue, i, t, outcome) ==
    IF outcome = "returned"
    THEN [queue EXCEPT ![i].lastRun = t, ![i].isRunning = FALSE]
    ELSE [queue EXCEPT ![i].isRunning = FALSE]

\* The finally block: lastRun = Date.now(), then isRunning = false.
Finally(queue, i, t, outcome) ==
    [queue EXCEPT ![i].lastRun = t, ![i].isRunning = FALSE]

\* The catch block logs the error and swallows it.
CatchLogs(log, name, outcome) ==
    IF outcome = "threw" THEN log \cup {name} ELSE log

\* Variant: the catch block rethrows what it logged.
RethrownFromCatch(outcome) == outcome = "threw"

\* Whether the promise of processNextTask rejects for this body outcome.
Rethrown(outcome) == FALSE

\* ------------------------------------------------------------ task bodies
\* A body is evaluated against a description (env) of how each external call
\* it makes settles.  The evaluation keeps the list of calls made so far
\* (trace), whether control is still inside the body (status) and the value
\* of the latest expression (value).

\* An absent string or object (null, undefined); falsy like the empty string.
Null == ""

\* One awaited call: what is called, about which items, whether an audio
\* URL is passed, and how the call settles.
Effect(op, ids, audio, settles) ==
    [op |-> op, ids |-> ids, audio |-> audio, settles |-> settles]

Begin == [trace |-> <<>>, status |-> "run", value |-> Null]

\* An awaited external call: recorded, and it throws when it settles so.
Call(st, op, ids, audio, settles) ==
    IF st.status # "run" THEN st
    ELSE [st EXCEPT !.trace = Append(@, Effect(op, ids, audio, settles)),
                    !.status = IF settles = "throws" THEN "throw" ELSE "run"]

\* A call made only when cond holds.
CallIf(st, cond, op, ids, audio, settles) ==
    IF cond THEN Call(st, op, ids, audio, settles) ELSE st

\* A return statement taken when cond holds.
ReturnIf(st, cond) ==
    IF st.status = "run" /\ cond THEN [st EXCEPT !.status = "return"] ELSE st

\* A dereference of x (x.text) raises a TypeError when x is absent.
Deref(st, absent) ==
    IF st.status = "run" /\ absent THEN [st EXCEPT !.status = "throw"] ELSE st

\* An assignment to the local the evaluation carries.
SetValue(st, v) == IF st.status = "run" THEN [st EXCEPT !.value = v] ELSE st

\* catch (error) { console.error(...) } of a try block entered in state
\* before and left in state st: the error is logged and swallowed.
Catch(before, st, where) ==
    IF before.status = "run" /\ st.status = "throw"
    THEN [st EXCEPT !.trace = Append(@, Effect("console.error", {where}, FALSE, "ok")),
                    !.status = "run"]
    ELSE st

\* try { await call } catch { log }
TryCall(st, op, ids, audio, settles, where) ==
    Catch(st, Call(st, op, ids, audio, settles), where)

\* The end of a called function: a return inside it has left it, and the
\* caller goes on.
Leave(st) == IF st.status = "return" THEN [st EXCEPT !.status = "run"] ELSE st

\* What the scheduler sees of a finished body.
Finished(st) == [trace |-> st.trace, threw |-> st.status = "throw"]

Ops(trace) == {trace[k].op : k \in 1..Len(trace)}

Called(trace, op) == op \in Ops(trace)

Range(seq) == {seq[k] : k \in 1..Len(seq)}

\* ----------------------------------------------- comments (readChatAndReply)
\* Largest batch of comments returned by one fetch.
MaxBatch == 2

CommentId(k) == "c" \o ToString(k)

\* The batch of n comments.
Batch(n) == [k \in 1..n |-> CommentId(k)]

\* What the generation service answers when asked to select a comment: an id
\* of the batch, the sentinel, an id that is not in the batch, nothing.
SelectAnswers == Range(Batch(MaxBatch)) \cup {"NONE", "c0", Null}

CommentEnvs ==
    [ fetch     : {"ok", "fails"},              \* fetch of the unread comments
      n         : 0..MaxBatch,                  \* comments the server returns
      runtime   : {"ok", "throws"},             \* composeState, ensureConnection, createMemory
      select    : SelectAnswers \cup {"throws"},\* generateText for the selection
      reply     : {"ok", "none", "throws"},     \* generateMessageResponse
      animation : {"ok", "throws"},             \* generateText for the animation
      speech    : {"ok", "throws"},             \* generateSpeech
      publish   : {"200", "500", "throws"} ]    \* POST of the response

\* fetchUnreadComments: a failed fetch is caught and reported as no comments.
FetchUnreadComments(env) == IF env.fetch = "ok" THEN Batch(env.n) ELSE <<>>

\* selectCommentToRespondTo: the answer of the generation service, with the
\* sentinel mapped to null.
SelectCommentToRespondTo(st, comments, env) ==
    IF Len(comments) = 0 THEN SetValue(st, Null)
    ELSE SetValue(
            Call(Call(st, "composeState", {}, FALSE, env.runtime),
                 "generateText:select", Range(comments), FALSE,
                 IF env.select = "throws" THEN "throws" ELSE "ok"),
            IF env.select = "NONE" THEN Null ELSE env.select)

\* The reply to the selected comment: generate, animate, speak, publish.
ReplyToComment(st, selected, env) ==
    LET s1 == Call(st, "ensureConnection", {selected}, FALSE, env.runtime)
        s2 == Call(s1, "createMemory", {selected}, FALSE, "ok")
        s3 == Call(s2, "composeState", {selected}, FALSE, "ok")
        \* _generateResponse returns undefined when there is no response, and
        \* responseContent.text is then read from undefined
        s4 == Call(s3, "generateMessageResponse", {selected}, FALSE,
                   IF env.reply = "throws" THEN "throws" ELSE "ok")
        s5 == Deref(s4, env.reply = "none")
        s6 == Call(s5, "generateText:animation", {selected}, FALSE, env.animation)
        \* try { speechUrl = await this.generateSpeech(...) } catch { log }
        s7 == TryCall(s6, "generateSpeech", {selected}, FALSE, env.speech, "speech")
    IN  Call(s7, "publish", {selected}, env.speech = "ok",
             IF env.publish = "throws" THEN "throws" ELSE "ok")

\* Variant: the generation service is asked whatever the size of the batch.
SelectedCommentIdAlwaysAsks(st, comments, env) ==
    SelectCommentToRespondTo(st, comments, env)

\* selectedCommentId: the only comment of a batch of one, else the selection.
SelectedCommentId(st, comments, env) ==
    IF Len(comments) = 1 THEN SetValue(st, comments[1])
    ELSE SelectCommentToRespondTo(st, comments, env)

\* Variant: when the answer names no comment of the batch, the first comment
\* is replied to.
ReplyToSelectedOrFirst(st, comments, env) ==
    IF st.status # "run" THEN st
    ELSE ReplyToComment(st, IF st.value \in Range(comments) THEN st.value
                            ELSE comments[1], env)

\* if (!selectedCommentId) return; if (!selectedComment) return; then reply.
ReplyToSelected(st, comments, env) ==
    IF st.status # "run" \/ st.value = Null \/ st.value \notin Range(comments)
    THEN ReturnIf(st, TRUE)
    ELSE ReplyToComment(st, st.value, env)

\* Variant: the comments are marked read at the end of the processing, once
\* the reply is out.
ProcessCommentsMarksLast(st, comments, env) ==
    LET s1 == ReturnIf(st, Len(comments) = 0)
        s2 == SelectedCommentId(s1, comments, env)
        s3 == Leave(ReplyToSelected(s2, comments, env))
    IN  TryCall(s3, "markCommentsAsRead", Range(comments), FALSE, "ok",
                "markCommentsAsRead")

\* processComments
ProcessComments(st, comments, env) ==
    LET s1 == ReturnIf(st, Len(comments) = 0)
        \* markCommentsAsRead catches its own failures
        s2 == TryCall(s1, "markCommentsAsRead", Range(comments), FALSE, "ok",
                      "markCommentsAsRead")
        s3 == SelectedCommentId(s2, comments, env)
    IN  Leave(ReplyToSelected(s3, comments, env))

\* Variant: readChatAndReply never assigns the watermark.
CommentsDoneKeepsWatermark(st, watermark, t) ==
    [trace |-> Catch(Begin, st, "readChatAndReply").trace,
     threw |-> FALSE,
     watermark |-> watermark]

\* The end of readChatAndReply: this.lastProcessedTimestamp = new Date() is
\* the last statement of the try block, and the catch block only logs.
CommentsDone(st, watermark, t) ==
    [trace |-> Catch(Begin, st, "readChatAndReply").trace,
     threw |-> FALSE,
     watermark |-> IF st.status = "run" THEN t ELSE watermark]

\* Variant: the watermark is assigned inside the branch that processes a
\* non-empty batch.
ReadChatAndReplyAdvancesAfterWork(env, watermark, t) ==
    IF Len(FetchUnreadComments(env)) > 0
    THEN CommentsDone(
            ProcessComments(Call(Begin, "fetchUnreadComments", {}, FALSE, "ok"),
                            FetchUnreadComments(env), env),
            watermark, t)
    ELSE [trace |-> Call(Begin, "fetchUnreadComments", {}, FALSE, "ok").trace,
          threw |-> FALSE, watermark |-> watermark]

\* readChatAndReply, finishing at time t with the watermark it found: the
\* calls it made, whether it threw, and the watermark it leaves.
ReadChatAndReply(env, watermark, t) ==
    LET s1 == Call(Begin, "fetchUnreadComments", {}, FALSE, "ok")
    IN  CommentsDone(
            IF Len(FetchUnreadComments(env)) > 0
            THEN ProcessComments(s1, FetchUnreadComments(env), env) ELSE s1,
            watermark, t)

\* ------------------------------------------------------- gifts (readGifts)
\* Largest batch of unread gifts returned by one fetch.
MaxGifts == 2

GiftId(k) == "g" \o ToString(k)

\* How the processing of one gift goes.  Calls that are not reached are
\* given one fixed value.
GiftEnvs ==
    { g \in [ name     : {"Ice Cream", "Rose"},             \* gift.giftName
              generate : {"ok", "unparsable", "throws"},    \* composeState + generateText
              draw     : BOOLEAN,                           \* Math.random() < 0.5
              speech   : {"ok", "throws"},                  \* generateSpeech
              publish  : {"200", "500", "throws"} ] :       \* POST of the response
        /\ g.generate # "ok" => (~g.draw /\ g.speech = "ok" /\ g.publish = "200")
        /\ (g.name # "Ice Cream" /\ ~g.draw) => g.speech = "ok"
        /\ g.speech = "throws" => g.publish = "200" }

\* All sequences over S of length at most n.
RECURSIVE SeqsUpTo(_, _)
SeqsUpTo(S, n) ==
    IF n = 0 THEN {<<>>}
    ELSE SeqsUpTo(S, n - 1)
            \cup {Append(q, x) : q \in {r \in SeqsUpTo(S, n - 1) : Len(r) = n - 1}, x \in S}

GiftJobEnvs ==
    [fetch : {"ok"}, gifts : SeqsUpTo(GiftEnvs, MaxGifts)]
        \cup [fetch : {"fails"}, gifts : {<<>>}]

\* Variant: the draw decides for every gift.
ShouldTranscribeByDraw(g) == g.draw

\* const shouldTranscribe = gift.giftName === 'Ice Cream' ? 0.5 : Math.random() < 0.5
\* (0.5 is truthy).
ShouldTranscribe(g) == IF g.name = "Ice Cream" THEN TRUE ELSE g.draw

\* Variant: the gift is marked read whatever the status of the response.
PublishGiftMarksAlways(st, id, g) ==
    Catch(st,
          Call(Call(st, "publish", {id}, ShouldTranscribe(g),
                    IF g.publish = "throws" THEN "throws" ELSE "ok"),
               "markGiftsAsRead", {id}, FALSE, "ok"),
          "publish")

\* try { fetch; if (ok) markGiftsAsRead } catch { log; return false }
PublishGift(st, id, g) ==
    Catch(st,
          CallIf(Call(st, "publish", {id}, ShouldTranscribe(g),
                      IF g.publish = "throws" THEN "throws" ELSE "ok"),
                 g.publish = "200", "markGiftsAsRead", {id}, FALSE, "ok"),
          "publish")

\* try { await createMemory } catch { log }: the first await of processGift.
RecordGift(st, k) ==
    TryCall(st, "createMemory", {GiftId(k)}, FALSE, "ok", "createMemory")

\* processGift after the memory of the gift: generate, speak, publish.
ThankForGift(st, k, g) ==
    LET s2 == Call(st, "generateText:gift", {GiftId(k)}, FALSE,
                   IF g.generate = "throws" THEN "throws" ELSE "ok")
        s3 == ReturnIf(s2, g.generate = "unparsable")
        \* speechUrl = await this.generateSpeech(...), outside any try block
        s4 == CallIf(s3, ShouldTranscribe(g), "generateSpeech", {GiftId(k)}, FALSE, g.speech)
    IN  Leave(PublishGift(s4, GiftId(k), g))

\* processGift for the k-th gift of the batch.
ProcessGift(st, k, g) == ThankForGift(RecordGift(st, k), k, g)

\* The first awaits of the processings of the gifts from the k-th on.
RECURSIVE RecordGiftsFrom(_, _, _)
RecordGiftsFrom(st, gifts, k) ==
    IF k > Len(gifts) THEN st
    ELSE RecordGiftsFrom(RecordGift(st, k), gifts, k + 1)

\* The rest of those processings, one gift after the other.
RECURSIVE ThankForGiftsFrom(_, _, _)
ThankForGiftsFrom(st, gifts, k) ==
    IF k > Len(gifts) \/ st.status # "run" THEN st
    ELSE ThankForGiftsFrom(ThankForGift(st, k, gifts[k]), gifts, k + 1)

\* Variant: await Promise.all(gifts.map(gift => this.processGift(gift))):
\* every processing runs up to its first await before any of them goes on.
ProcessGiftsTogether(st, gifts, k) ==
    ThankForGiftsFrom(RecordGiftsFrom(st, gifts, k), gifts, k)

\* for (const gift of gifts) { await this.processGift(gift); }
RECURSIVE ProcessGiftsFrom(_, _, _)
ProcessGiftsFrom(st, gifts, k) ==
    IF k > Len(gifts) \/ st.status # "run" THEN st
    ELSE ProcessGiftsFrom(ProcessGift(st, k, gifts[k]), gifts, k + 1)

\* readGifts: no try block of its own.
ReadGifts(env) ==
    Finished(ProcessGiftsFrom(Call(Begin, "fetchUnreadGifts", {}, FALSE, "ok"),
                              IF env.fetch = "ok" THEN env.gifts ELSE <<>>, 1))

\* ------------------------------------- top likers (readAndRespondToTopLikers)
TopLikerEnvs ==
    [ window   : {"5m", "all"},                    \* Math.random() < 0.5
      fetch    : {"ok", "fails"},                  \* fetchTopLikers
      likers   : 0..2,                             \* entries of the ranking
      pick     : 1..2,                             \* Math.random() for the entry
      generate : {"ok", "unparsable", "throws"},   \* composeState + generateText
      publish  : {"200", "500", "throws"} ]

LikerId(k) == "u" \o ToString(k)

\* getRandomTopLiker
RandomTopLiker(env) == LikerId(IF env.pick <= env.likers THEN env.pick ELSE 1)

ReadAndRespondToTopLikers(env) ==
    LET s1 == Call(Begin, "fetchTopLikers", {env.window}, FALSE, "ok")
        s2 == ReturnIf(s1, env.fetch = "fails")
        s3 == ReturnIf(s2, env.likers = 0)
        s4 == Call(s3, "generateText:topLiker", {RandomTopLiker(env)}, FALSE,
                   IF env.generate = "throws" THEN "throws" ELSE "ok")
        s5 == ReturnIf(s4, env.generate = "unparsable")
        s6 == Call(s5, "publish", {RandomTopLiker(env)}, FALSE,
                   IF env.publish = "throws" THEN "throws" ELSE "ok")
    IN  Finished(Catch(Begin, s6, "readAndRespondToTopLikers"))

\* ------------------------------- fresh thought (generateAndShareFreshThought)
ThoughtEnvs ==
    [ thought : {"ok", "empty", "throws"},         \* composeState + generateText
      speech  : {"ok", "throws"},
      publish : {"200", "500", "throws"} ]

\* Variant: generateSpeech is awaited outside the inner try block.
GenerateAndShareFreshThoughtUnguarded(env) ==
    LET s1 == Call(Begin, "generateText:thought", {}, FALSE,
                   IF env.thought = "throws" THEN "throws" ELSE "ok")
        s2 == ReturnIf(s1, env.thought = "empty")
        s3 == Call(s2, "generateSpeech", {"thought"}, FALSE, env.speech)
        s4 == Call(s3, "publish", {"thought"}, env.speech = "ok",
                   IF env.publish = "throws" THEN "throws" ELSE "ok")
    IN  Finished(Catch(Begin, s4, "generateAndShareFreshThought"))

GenerateAndShareFreshThought(env) ==
    LET s1 == Call(Begin, "generateText:thought", {}, FALSE,
                   IF env.thought = "throws" THEN "throws" ELSE "ok")
        s2 == ReturnIf(s1, env.thought = "empty")
        s3 == TryCall(s2, "generateSpeech", {"thought"}, FALSE, env.speech, "speech")
        s4 == Call(s3, "publish", {"thought"}, env.speech = "ok",
                   IF env.publish = "throws" THEN "throws" ELSE "ok")
    IN  Finished(Catch(Begin, s4, "generateAndShareFreshThought"))

\* --------------------------- periodic animation (generateAndSharePeriodicAnimation)
\* getAllAnimations(): IDLE, HEAD, GESTURES, DANCING and SPECIAL; SITTING is
\* commented out.
AllAnimations ==
    { "idle", "idle-2", "idle_basic", "idle_dwarf", "offensive_idle",
      "acknowledging", "hard_head_nod", "head_nod_yes", "lengthy_head_nod",
      "sarcastic_head_nod", "shaking_head_no", "thoughtful_head_shake",
      "annoyed_head_shake",
      "angry_gesture", "being_cocky", "dismissing_gesture", "happy_hand_gesture",
      "look_away_gesture", "relieved_sigh", "standing_clap",
      "dancing_twerk", "hip_hop_dancing", "rumba_dancing", "silly_dancing",
      "capoeira",
      "appearing", "floating", "joyful_jump", "laughing", "super_excited",
      "walk_with_rifle", "weight_shift" }

\* Texts the generation service may return for the animation.
GeneratedAnimations ==
    {"floating", " Floating\n", "CAPOEIRA", "flying", "sitting", "Idle.", Null}

\* Variant: the text is looked up as generated.
CleanAnimationAsIs(text) == text

\* animation.trim().toLowerCase() on those texts.
CleanAnimation(text) ==
    CASE text = " Floating\n" -> "floating"
      [] text = "CAPOEIRA" -> "capoeira"
      [] text = "Idle." -> "idle."
      [] OTHER -> text

AnimationEnvs ==
    [ generate : GeneratedAnimations \cup {"throws"},
      publish  : {"200", "500", "throws"} ]

GenerateAndSharePeriodicAnimation(env) ==
    LET s1 == Call(Begin, "generateText:periodicAnimation", {}, FALSE,
                   IF env.generate = "throws" THEN "throws" ELSE "ok")
        s2 == ReturnIf(s1, CleanAnimation(env.generate) \notin AllAnimations)
        s3 == Call(s2, "publishAnimation", {CleanAnimation(env.generate)}, FALSE,
                   IF env.publish = "throws" THEN "throws" ELSE "ok")
    IN  Finished(Catch(Begin, s3, "generateAndSharePeriodicAnimation"))

\* ------------------------------------------------------------- heartbeat
HeartbeatEnvs ==
    [ put : {"ok", "notOk", "unsuccessful", "throws"} ]   \* PUT /api/scenes/:id

\* catch (error) { console.error(...); throw error } of updateStreamingStatus
LogAndRethrow(st, where) ==
    IF st.status = "throw"
    THEN [st EXCEPT !.trace = Append(@, Effect("console.error", {where}, FALSE, "ok"))]
    ELSE st

\* heartbeat awaits updateStreamingStatus with no try block.
Heartbeat(env) ==
    Finished(LogAndRethrow(
        Call(Begin, "publishStatus", {}, FALSE, IF env.put = "ok" THEN "ok" ELSE "throws"),
        "updateStreamingStatus"))

\* ------------------------------------ peer room (readAgentChatAndReply)
RoomMessageIds == {"m1", "m2"}

PeerEnvs ==
    [ isInChat : BOOLEAN,                          \* settings.secrets.isInChat
      fetch    : {"ok", "fails", "throws"},        \* fetchRoomMessages
      messages : 0..1,                             \* whether the room has messages
      latest   : {"processed", "new"},             \* the latest message of the room
      author   : {"self", "peer"},                 \* its agentId
      reply    : {"ok", "unparsable", "throws"},   \* composeState + generateText
      speech   : {"ok", "throws"},
      post     : {"ok", "throws"} ]                \* postRoomMessage

\* An id the client has not processed last.
FreshMessageId(lastId) == IF lastId = "m1" THEN "m2" ELSE "m1"

\* latestMessage.id: the id processed last, or another one.  Before anything
\* was processed every id is another one.
LatestMessageId(env, lastId) ==
    IF env.latest = "processed" /\ lastId # Null THEN lastId ELSE FreshMessageId(lastId)

\* Variant: the author of the latest message is not looked at.
SkipOwnMessageNever(st, env, latest) == st

\* Variant: a message of the agent itself is skipped without being recorded.
SkipOwnMessageKeepsId(st, env, latest) ==
    IF env.author = "self" THEN ReturnIf(st, TRUE) ELSE st

\* if (latestMessage.agentId === this.config.agentId)
\*     { this.lastAgentChatMessageId = latestMessage.id; return; }
SkipOwnMessage(st, env, latest) ==
    IF env.author = "self" THEN ReturnIf(SetValue(st, latest), TRUE) ELSE st

\* The end of readAgentChatAndReply.  A run that reaches the end of the try
\* block has assigned lastAgentChatMessageId and then lastProcessedTimestamp;
\* st.value holds the id assigned to lastAgentChatMessageId, if any.
PeerDone(st, watermark, lastId, t) ==
    [trace |-> Catch(Begin, st, "readAgentChatAndReply").trace,
     threw |-> FALSE,
     watermark |-> IF st.status = "run" THEN t ELSE watermark,
     lastId |-> IF st.value # Null THEN st.value ELSE lastId]

\* Variant: lastAgentChatMessageId is assigned before the reply is posted.
ReplyToLatestRecordsFirst(env, lastId, latest) ==
    LET s1 == Call(Begin, "fetchRoomMessages", {}, FALSE,
                   IF env.fetch = "throws" THEN "throws" ELSE "ok")
        s2 == ReturnIf(s1, env.fetch = "fails" \/ env.messages = 0)
        s3 == ReturnIf(s2, lastId = latest)
        s4 == SkipOwnMessage(s3, env, latest)
        s5 == Call(s4, "generateText:peer", {latest}, FALSE,
                   IF env.reply = "throws" THEN "throws" ELSE "ok")
        s6 == ReturnIf(s5, env.reply = "unparsable")
        s7 == TryCall(s6, "generateSpeech", {latest}, FALSE, env.speech, "speech")
        s8 == SetValue(s7, latest)
    IN  Call(s8, "postRoomMessage", {latest}, env.speech = "ok", env.post)

\* The try block of readAgentChatAndReply with latestMessage.id = latest.
ReplyToLatest(env, lastId, latest) ==
    LET s1 == Call(Begin, "fetchRoomMessages", {}, FALSE,
                   IF env.fetch = "throws" THEN "throws" ELSE "ok")
        s2 == ReturnIf(s1, env.fetch = "fails" \/ env.messages = 0)
        s3 == ReturnIf(s2, lastId = latest)
        s4 == SkipOwnMessage(s3, env, latest)
        s5 == Call(s4, "generateText:peer", {latest}, FALSE,
                   IF env.reply = "throws" THEN "throws" ELSE "ok")
        s6 == ReturnIf(s5, env.reply = "unparsable")
        s7 == TryCall(s6, "generateSpeech", {latest}, FALSE, env.speech, "speech")
        s8 == Call(s7, "postRoomMessage", {latest}, env.speech = "ok", env.post)
    IN  SetValue(s8, latest)

\* Variant: the job does not look at the isInChat setting.
ReadAgentChatAndReplyAlways(env, watermark, lastId, t) ==
    PeerDone(ReplyToLatest(env, lastId, LatestMessageId(env, lastId)),
             watermark, lastId, t)

\* readAgentChatAndReply, finishing at time t.
ReadAgentChatAndReply(env, watermark, lastId, t) ==
    IF ~env.isInChat
    THEN [trace |-> <<>>, threw |-> FALSE, watermark |-> watermark, lastId |-> lastId]
    ELSE PeerDone(ReplyToLatest(env, lastId, LatestMessageId(env, lastId)),
                  watermark, lastId, t)

\* ------------------------------------------------------------- dispatch
\* The descriptions of one run of the named task.
Envs(name) ==
    CASE name = "readGifts" -> GiftJobEnvs
      [] name = "readChatAndReply" -> CommentEnvs
      [] name = "readAndRespondToTopLikers" -> TopLikerEnvs
      [] name = "generateFreshThought" -> ThoughtEnvs
      [] name = "readAgentChatAndReply" -> PeerEnvs
      [] name = "generatePeriodicAnimation" -> AnimationEnvs
      [] name = "heartbeat" -> HeartbeatEnvs

\* The switch of processNextTask: one run of the named task finishing at
\* time t, from the given values of lastProcessedTimestamp and
\* lastAgentChatMessageId.
RunBody(name, env, watermark, lastId, t) ==
    LET keep(r) == [trace |-> r.trace, threw |-> r.threw,
                    watermark |-> watermark, lastId |-> lastId]
        keepId(r) == [trace |-> r.trace, threw |-> r.threw,
                      watermark |-> r.watermark, lastId |-> lastId]
    IN  CASE name = "readGifts" -> keep(ReadGifts(env))
          [] name = "readChatAndReply" -> keepId(ReadChatAndReply(env, watermark, t))
          [] name = "readAndRespondToTopLikers" -> keep(ReadAndRespondToTopLikers(env))
          [] name = "generateFreshThought" -> keep(GenerateAndShareFreshThought(env))
          [] name = "readAgentChatAndReply" -> ReadAgentChatAndReply(env, watermark, lastId, t)
          [] name = "generatePeriodicAnimation" -> keep(GenerateAndSharePeriodicAnimation(env))
          [] name = "heartbeat" -> keep(Heartbeat(env))

\* No invocation is being followed.
NoRun == [name |-> Null]

TaskNames == {InitialTaskQueue[i].name : i \in Tasks}

\* What a run did to the fields of the client: how it settled, whether it
\* assigned lastProcessedTimestamp (started at 0, finished at 1), and the
\* lastAgentChatMessageId it left.
Summary(r) ==
    [outcome |-> IF r.threw THEN "threw" ELSE "returned",
     watermark |-> r.watermark = 1,
     lastId |-> r.lastId]

\* What one run of each task can do, from each value of
\* lastAgentChatMessageId.
BodySummaries ==
    [name \in TaskNames |->
        [lastId \in RoomMessageIds \cup {Null} |->
            {Summary(RunBody(name, env, 0, lastId, 1)) : env \in Envs(name)}]]

\* ------------------------------------------------ the server at construction
\* The comments that may be written to the agent.
CommentIds == Range(Batch(MaxBatch))

\* No comment written yet.  created: when each comment was written; read:
\* the comments marked read; batch: the comments of the fetch being
\* processed, busy while one is; fetched: the comments returned by some
\* fetch so far; replies: the replies published to each comment so far.
EmptyInbox ==
    [ created |-> [c \in CommentIds |-> Undefined],
      read |-> {},
      busy |-> FALSE,
      batch |-> {},
      fetched |-> {},
      replies |-> [c \in CommentIds |-> 0] ]

\* Most messages the peer room holds.
MaxRoom == 3

\* An empty room.  authors: who wrote each message, oldest first; posts: the
\* replies the agent posted while each message was the latest of the room.
EmptyRoom ==
    [ authors |-> << >>,
      posts |-> [k \in 1..MaxRoom |-> 0] ]

\* ---------------------------------------------------------------- actions
Init ==
    /\ now \in {EarlyStart, LateStart}
    /\ ticks = 0
    /\ taskQueue = InitialTaskQueue
    /\ eligibleTask = 0
    /\ pending = [i \in Tasks |-> 0]
    /\ hung = {}
    /\ lastStart = [i \in Tasks |-> Undefined]
    /\ lastEnd = [i \in Tasks |-> Undefined]
    /\ bodyOutcome = [i \in Tasks |-> "none"]
    /\ errorLog = {}
    /\ tickRejected = FALSE
    /\ lastProcessedTimestamp = now
    /\ lastAgentChatMessageId = Null
    /\ run = NoRun
    /\ taskInterval = "set"
    /\ stopped = "no"
    /\ inbox = EmptyInbox
    /\ room = EmptyRoom

\* A body that is going to resolve has done so before it is too old.
BodiesWithinBound(t) ==
    \A i \in Tasks :
        (pending[i] > 0 /\ i \notin hung) =>
            t - lastStart[i] <= MaxBodyTicks * TickPeriod

\* The interval timer fires: the clock has advanced by one period and the
\* synchronous head of processNextTask runs up to its first await.
Tick ==
    /\ taskInterval = "set"
    /\ ticks < MaxTicks
    /\ BodiesWithinBound(now + TickPeriod)
    /\ now' = now + TickPeriod
    /\ ticks' = ticks + 1
    /\ LET found == Find(taskQueue, now')
       IN  /\ eligibleTask' = found
           /\ IF found = 0
              THEN UNCHANGED << taskQueue, pending, lastStart >>
              ELSE /\ taskQueue' = MarkRunning(taskQueue, found)
                   /\ pending' = [pending EXCEPT ![found] = @ + 1]
                   /\ lastStart' = [lastStart EXCEPT ![found] = now']
    /\ stopped' = IF stopped = "called" /\ Find(taskQueue, now') # 0
                  THEN "ticked" ELSE stopped
    /\ UNCHANGED << hung, lastEnd, bodyOutcome, errorLog, tickRejected,
                    lastProcessedTimestamp, lastAgentChatMessageId, run,
                    taskInterval, inbox, room >>

\* The awaited body of task i settles; catch and finally run to completion.
Settle(i, outcome) ==
    /\ pending[i] > 0
    /\ i \notin hung
    /\ outcome \in BodyOutcomes(taskQueue[i].name)
    /\ \E e \in BodySummaries[taskQueue[i].name][lastAgentChatMessageId] :
          /\ e.outcome = outcome
          /\ lastProcessedTimestamp' =
                 IF e.watermark THEN now ELSE lastProcessedTimestamp
          /\ lastAgentChatMessageId' = e.lastId
    /\ pending' = [pending EXCEPT ![i] = @ - 1]
    /\ bodyOutcome' = [bodyOutcome EXCEPT ![i] = outcome]
    /\ errorLog' = CatchLogs(errorLog, taskQueue[i].name, outcome)
    /\ tickRejected' = (tickRejected \/ Rethrown(outcome))
    /\ taskQueue' = Finally(taskQueue, i, now, outcome)
    /\ lastEnd' = [lastEnd EXCEPT ![i] = now]
    /\ UNCHANGED << now, ticks, eligibleTask, hung, lastStart, run,
                    taskInterval, stopped, inbox, room >>

\* The outstanding body of task i turns out never to resolve (no timeout).
Hang(i) ==
    /\ pending[i] > 0
    /\ i \notin hung
    /\ Cardinality(hung) < MaxHung
    /\ hung' = hung \cup {i}
    /\ UNCHANGED << now, ticks, taskQueue, eligibleTask, pending,
                    lastStart, lastEnd, bodyOutcome, errorLog, tickRejected,
                    lastProcessedTimestamp, lastAgentChatMessageId, run,
                    taskInterval, stopped, inbox, room >>

Next ==
    \/ Tick
    \/ \E i \in Tasks : \E outcome \in {"returned", "threw"} : Settle(i, outcome)
    \/ \E i \in Tasks : Hang(i)

Spec == Init /\ [][Next]_vars

\* Under the scheduling the runtime provides: the interval timer keeps firing
\* and every body that resolves at all is eventually resumed.
SpecFair ==
    /\ Init /\ [][Next]_vars
    /\ WF_vars(Tick)
    /\ \A i \in Tasks : WF_vars(\E outcome \in {"returned", "threw"} : Settle(i, outcome))

\* ------------------------------------------------- AikoClientInterface
\* The fields of the client and the bookkeeping of its scheduler.
clientVars == << now, ticks, taskQueue, eligibleTask, pending, hung,
                 lastStart, lastEnd, bodyOutcome, errorLog, tickRejected,
                 lastProcessedTimestamp, lastAgentChatMessageId, taskInterval >>

\* Variant: stop clears the interval timer of the client.
StopClearsInterval ==
    /\ stopped' = "called"
    /\ taskInterval' = "cleared"
    /\ UNCHANGED << now, ticks, taskQueue, eligibleTask, pending, hung,
                    lastStart, lastEnd, bodyOutcome, errorLog, tickRejected,
                    lastProcessedTimestamp, lastAgentChatMessageId, run,
                    inbox, room >>

\* stop: console.warn("Direct client does not support stopping yet").
Stop ==
    /\ stopped' = "called"
    /\ UNCHANGED << now, ticks, taskQueue, eligibleTask, pending, hung,
                    lastStart, lastEnd, bodyOutcome, errorLog, tickRejected,
                    lastProcessedTimestamp, lastAgentChatMessageId, run,
                    taskInterval, inbox, room >>

\* The client with an owner that may call stop at any moment.
NextStop ==
    \/ Tick
    \/ \E i \in Tasks : \E outcome \in {"returned", "threw"} : Settle(i, outcome)
    \/ \E i \in Tasks : Hang(i)
    \/ Stop

SpecStop == Init /\ [][NextStop]_vars

\* ------------------------------------------- one invocation, call by call
\* Longer than every minInterval of the registry.
LongAgo == 90000

\* The registry when task i is the next one to be selected: the tasks before
\* it ran one after the other on the preceding ticks, and the tasks from i on
\* either never ran or ran long ago.
QueueBefore(i, t, ranBefore) ==
    [j \in Tasks |->
        [InitialTaskQueue[j] EXCEPT
            !.lastRun = IF j < i THEN t - (i - j) * TickPeriod
                        ELSE IF ranBefore THEN t - LongAgo ELSE Undefined]]

\* A state of the client between two invocations.  lastAgentChatMessageId
\* has a value only when the peer-room task has run.
InitBody ==
    /\ now = LateStart
    /\ ticks = 0
    /\ eligibleTask = 0
    /\ pending = [i \in Tasks |-> 0]
    /\ hung = {}
    /\ errorLog = {}
    /\ tickRejected = FALSE
    /\ lastProcessedTimestamp = now
    /\ run = NoRun
    /\ taskInterval = "set"
    /\ stopped = "no"
    /\ inbox = EmptyInbox
    /\ room = EmptyRoom
    /\ lastAgentChatMessageId \in RoomMessageIds \cup {Null}
    /\ \E i \in Tasks :
          LET queue == QueueBefore(i, now, lastAgentChatMessageId # Null)
          IN  /\ taskQueue = queue
              /\ lastStart = [j \in Tasks |-> queue[j].lastRun]
              /\ lastEnd = [j \in Tasks |-> queue[j].lastRun]
              /\ bodyOutcome = [j \in Tasks |->
                     IF queue[j].lastRun = Undefined THEN "none" ELSE "returned"]

\* One whole invocation of processNextTask, from the timer callback to the
\* end of its finally block, with the body of the selected task i going as
\* env describes.
Invocation(i, env) ==
    LET t == now + TickPeriod
        name == taskQueue[i].name
        r == RunBody(name, env, lastProcessedTimestamp, lastAgentChatMessageId, t)
        outcome == IF r.threw THEN "threw" ELSE "returned"
    IN  /\ run = NoRun
        /\ taskInterval = "set"
        /\ i = Find(taskQueue, t)
        /\ now' = t
        /\ ticks' = ticks + 1
        /\ eligibleTask' = i
        /\ lastStart' = [lastStart EXCEPT ![i] = t]
        /\ lastEnd' = [lastEnd EXCEPT ![i] = t]
        /\ bodyOutcome' = [bodyOutcome EXCEPT ![i] = outcome]
        /\ errorLog' = CatchLogs(errorLog, name, outcome)
        /\ tickRejected' = (tickRejected \/ Rethrown(outcome))
        /\ taskQueue' = Finally(MarkRunning(taskQueue, i), i, t, outcome)
        /\ lastProcessedTimestamp' = r.watermark
        /\ lastAgentChatMessageId' = r.lastId
        /\ run' = [name |-> name, env |-> env, trace |-> r.trace, threw |-> r.threw]
        /\ UNCHANGED << pending, hung, taskInterval, stopped, inbox, room >>

NextBody == \E i \in Tasks : \E env \in Envs(taskQueue[i].name) : Invocation(i, env)

SpecBody == InitBody /\ [][NextBody]_vars

\* ------------------------------- the comment job, run after run, and its server
\* Runs of the comment and peer-room jobs followed in one behaviour.
MaxInboxRuns == 3

\* GET UNREAD_COMMENTS(agentId)?since=...: the comments written at or after
\* since that are not marked read.  There are fewer comments than the limit
\* of the request.
UnreadSince(since) ==
    {c \in CommentIds :
        /\ inbox.created[c] # Undefined
        /\ inbox.created[c] >= since
        /\ c \notin inbox.read}

\* The comments of a batch in the order of the server, oldest first.
BatchOf(ids) == SelectSeq(Batch(MaxBatch), LAMBDA c : c \in ids)

\* How the processing of a fetched batch goes: one value for each way the
\* reply can end.
InboxEnvs ==
    [ fetch     : {"ok"},
      n         : {0},
      runtime   : {"ok"},
      select    : CommentIds \cup {"NONE"},
      reply     : {"ok", "throws"},
      animation : {"ok"},
      speech    : {"ok"},
      publish   : {"200", "throws"} ]

\* The calls of readChatAndReply after its fetch returned the batch ids.
AfterFetch(ids, env) ==
    IF ids = {} THEN Call(Begin, "fetchUnreadComments", {}, FALSE, "ok")
    ELSE ProcessComments(Call(Begin, "fetchUnreadComments", {}, FALSE, "ok"),
                         BatchOf(ids), env)

\* The comments a list of calls asks the server to mark read.
MarkedIn(trace) ==
    UNION {trace[k].ids : k \in {m \in 1..Len(trace) : trace[m].op = "markCommentsAsRead"}}

\* The comments a list of calls publishes a reply to.
PublishedIn(trace) ==
    UNION {trace[k].ids : k \in {m \in 1..Len(trace) : trace[m].op = "publish"}}

\* A viewer writes comment c; the comments are numbered as they are written.
Arrive(c) ==
    /\ inbox.created[c] = Undefined
    /\ \A k \in 1..MaxBatch :
          (c = CommentId(k) /\ k > 1) => inbox.created[CommentId(k - 1)] # Undefined
    /\ inbox' = [inbox EXCEPT !.created[c] = now]
    /\ UNCHANGED << now, ticks, taskQueue, eligibleTask, pending, hung,
                    lastStart, lastEnd, bodyOutcome, errorLog, tickRejected,
                    lastProcessedTimestamp, lastAgentChatMessageId, run,
                    taskInterval, stopped, room >>

\* readChatAndReply up to the return of its fetch, which is made with the
\* watermark of the moment and succeeds.
FetchComments ==
    /\ ~inbox.busy
    /\ ticks < MaxInboxRuns
    /\ inbox' = [inbox EXCEPT
                    !.busy = TRUE,
                    !.batch = UnreadSince(lastProcessedTimestamp),
                    !.fetched = @ \cup UnreadSince(lastProcessedTimestamp)]
    /\ UNCHANGED << now, ticks, taskQueue, eligibleTask, pending, hung,
                    lastStart, lastEnd, bodyOutcome, errorLog, tickRejected,
                    lastProcessedTimestamp, lastAgentChatMessageId, run,
                    taskInterval, stopped, room >>

\* The rest of readChatAndReply, which has taken a second: the batch is
\* processed as env says, the server marks the comments read or fails to,
\* and the watermark is assigned unless the processing threw.
FinishComments(env, marks) ==
    /\ inbox.busy
    /\ env.select \in inbox.batch \cup {"NONE"}
    /\ now' = now + TickPeriod
    /\ ticks' = ticks + 1
    /\ lastProcessedTimestamp' =
           CommentsDone(AfterFetch(inbox.batch, env), lastProcessedTimestamp, now').watermark
    /\ inbox' = [inbox EXCEPT
                    !.busy = FALSE,
                    !.batch = {},
                    !.read = IF marks THEN @ \cup MarkedIn(AfterFetch(inbox.batch, env).trace)
                             ELSE @,
                    !.replies = [c \in CommentIds |->
                        IF env.publish = "200"
                           /\ c \in PublishedIn(AfterFetch(inbox.batch, env).trace)
                        THEN @[c] + 1 ELSE @[c]]]
    /\ UNCHANGED << taskQueue, eligibleTask, pending, hung,
                    lastStart, lastEnd, bodyOutcome, errorLog, tickRejected,
                    lastAgentChatMessageId, run, taskInterval, stopped, room >>

\* A run of readAgentChatAndReply, which has taken a second, goes one of the
\* ways it can go from the lastAgentChatMessageId of the moment.
PeerRun ==
    /\ ticks < MaxInboxRuns
    /\ now' = now + TickPeriod
    /\ ticks' = ticks + 1
    /\ \E e \in BodySummaries["readAgentChatAndReply"][lastAgentChatMessageId] :
          /\ lastProcessedTimestamp' =
                 IF e.watermark THEN now' ELSE lastProcessedTimestamp
          /\ lastAgentChatMessageId' = e.lastId
    /\ UNCHANGED << taskQueue, eligibleTask, pending, hung,
                    lastStart, lastEnd, bodyOutcome, errorLog, tickRejected,
                    run, taskInterval, stopped, inbox, room >>

NextInbox ==
    \/ \E c \in CommentIds : Arrive(c)
    \/ FetchComments
    \/ \E env \in InboxEnvs : \E marks \in BOOLEAN : FinishComments(env, marks)
    \/ PeerRun

\* The client just constructed, its clock far from the epoch.
InitInbox == Init /\ now = LateStart

SpecInbox == InitInbox /\ [][NextInbox]_vars

\* ------------------------------------------ the peer job, run after run
\* Invocations of readAgentChatAndReply followed.
MaxRoomRuns == 4

\* The id of the k-th message of the room.
RoomId(k) == "m" \o ToString(k)

\* How one invocation goes, the room apart.
RoomEnvs ==
    {e \in PeerEnvs : e.messages = 1 /\ e.latest = "new" /\ e.author = "peer"}

\* messages[messages.length - 1] of the fetch: its id, and env with what the
\* fetch returns of the room.
LatestInRoom ==
    IF Len(room.authors) > 0 THEN RoomId(Len(room.authors)) ELSE Null

InRoom(env) ==
    [env EXCEPT !.messages = IF Len(room.authors) > 0 THEN 1 ELSE 0,
                !.author = IF Len(room.authors) > 0
                           THEN room.authors[Len(room.authors)] ELSE "peer"]

\* The try block of readAgentChatAndReply run on the room.
RoomReply(env) == ReplyToLatest(InRoom(env), lastAgentChatMessageId, LatestInRoom)

\* Whether a list of calls posts to the room.
PostedIn(trace) == \E k \in 1..Len(trace) : trace[k].op = "postRoomMessage"

\* readAgentChatAndReply run on the room at time t.
RoomRun(env, t) ==
    IF ~env.isInChat
    THEN [trace |-> <<>>, threw |-> FALSE,
          watermark |-> lastProcessedTimestamp, lastId |-> lastAgentChatMessageId]
    ELSE PeerDone(RoomReply(env), lastProcessedTimestamp, lastAgentChatMessageId, t)

\* Another agent writes to the room.
PeerSpeaks ==
    /\ Len(room.authors) < MaxRoom
    /\ room' = [room EXCEPT !.authors = Append(@, "peer")]
    /\ UNCHANGED << now, ticks, taskQueue, eligibleTask, pending, hung,
                    lastStart, lastEnd, bodyOutcome, errorLog, tickRejected,
                    lastProcessedTimestamp, lastAgentChatMessageId, run,
                    taskInterval, stopped, inbox >>

\* One invocation of readAgentChatAndReply, which takes a second.  Another
\* agent may write between the fetch and the post (interjects); the post
\* may reach the room whether or not the call returns (lands).  A post that
\* returned or reached the room counts as a reply to the message that was
\* the latest of the fetch.
RoomJob(env, interjects, lands) ==
    /\ ticks < MaxRoomRuns
    /\ (interjects \/ lands) => PostedIn(RoomRun(env, now).trace)
    /\ Len(room.authors) + (IF interjects THEN 1 ELSE 0) + (IF lands THEN 1 ELSE 0)
          <= MaxRoom
    /\ now' = now + TickPeriod
    /\ ticks' = ticks + 1
    /\ lastProcessedTimestamp' = RoomRun(env, now').watermark
    /\ lastAgentChatMessageId' = RoomRun(env, now').lastId
    /\ room' = [ authors |-> room.authors
                              \o (IF interjects THEN << "peer" >> ELSE << >>)
                              \o (IF lands THEN << "self" >> ELSE << >>),
                 posts |-> [k \in 1..MaxRoom |->
                     IF k = Len(room.authors)
                        /\ PostedIn(RoomRun(env, now).trace)
                        /\ (env.post = "ok" \/ lands)
                     THEN room.posts[k] + 1 ELSE room.posts[k]] ]
    /\ UNCHANGED << taskQueue, eligibleTask, pending, hung,
                    lastStart, lastEnd, bodyOutcome, errorLog, tickRejected,
                    run, taskInterval, stopped, inbox >>

NextRoom ==
    \/ PeerSpeaks
    \/ \E env \in RoomEnvs : \E interjects, lands \in BOOLEAN :
          RoomJob(env, interjects, lands)

SpecRoom == InitInbox /\ [][NextRoom]_vars

\* ------------------------------------------------------------ properties
Running == {i \in Tasks : taskQueue[i].isRunning}

\* The step is a timer callback that selected task i.
Selects(i) == ticks' = ticks + 1 /\ eligibleTask' = i

\* The step settles the body of task i.
Settles(i) == pending'[i] < pending[i]

\* C1: in every reachable state at most one task of the registry has
\* isRunning = true (no task is started while another body is outstanding).
C1_AtMostOneRunning == Cardinality(Running) <= 1

\* C2: a task that ran at t1 is not selected by any tick before
\* t1 + minInterval, whether that run returned or threw.
C2_NoRefireBeforeInterval ==
    [][\A i \in Tasks :
          (Selects(i) /\ lastStart[i] # Undefined) =>
              now' >= lastStart[i] + taskQueue[i].minInterval]_vars

\* A task whose previous run threw has been selected again.
C2_Witness ==
    \E i \in Tasks :
        /\ pending[i] = 1
        /\ bodyOutcome[i] = "threw"
        /\ lastEnd[i] # Undefined
        /\ lastStart[i] >= lastEnd[i] + taskQueue[i].minInterval

\* C3: once the processNextTask invocation of any tick has settled, every
\* task of the registry has isRunning = false.
C3_AllIdleAfterSettle ==
    [][(\E i \in Tasks : Settles(i)) =>
          \A j \in Tasks : ~taskQueue'[j].isRunning]_vars

\* C4: the task selected by a tick is exactly the first task in registry
\* order that is eligible at that tick: none is selected only when none is
\* eligible, no eligible task before the selected one is passed over, and
\* with the whole registry eligible the selected task is readGifts.
C4_FirstEligibleWins ==
    [][ticks' = ticks + 1 =>
          LET sel == eligibleTask'
              ok(i) == Eligible(taskQueue[i], now')
          IN  /\ sel = 0 => \A i \in Tasks : ~ok(i)
              /\ sel # 0 => (ok(sel) /\ \A i \in 1..(sel - 1) : ~ok(i))
              /\ (\A i \in Tasks : ok(i)) => taskQueue[sel].name = "readGifts"]_vars

\* The first tick with the whole registry eligible has selected readGifts.
C4_Witness ==
    /\ eligibleTask = 1
    /\ taskQueue[1].name = "readGifts"
    /\ pending[1] = 1
    /\ \A i \in Tasks \ {1} : Eligible(taskQueue[i], now)

\* C5: a body that throws does not make the tick fail: the error is logged,
\* the promise of processNextTask is not rejected, and lastRun / isRunning of
\* the task are updated exactly as after a body that returned, so later ticks
\* see the same registry.
C5_ThrowIsContained ==
    [][\A i \in Tasks :
          Settles(i) =>
              /\ ~tickRejected'
              /\ taskQueue' = [taskQueue EXCEPT ![i].lastRun = now,
                                                ![i].isRunning = FALSE]
              /\ bodyOutcome'[i] = "threw" => taskQueue[i].name \in errorLog']_vars

\* A body threw, and a later tick selected another task.
C5_Witness ==
    \E i \in Tasks :
        /\ bodyOutcome[i] = "threw"
        /\ pending[i] = 0
        /\ taskQueue[i].name \in errorLog
        /\ \E j \in Tasks \ {i} : lastStart[j] # Undefined /\ lastStart[j] > lastEnd[i]

\* C6: two executions of the same task never overlap: a task never has more
\* than one outstanding body.
C6_NoSelfOverlap == \A i \in Tasks : pending[i] <= 1

\* A tick has fired during the body of a task whose interval test passes, so
\* that only the isRunning flag keeps the task from being selected again.
C6_Witness ==
    \E i \in Tasks :
        /\ pending[i] = 1
        /\ now > lastStart[i]
        /\ now - LastRunOrZero(taskQueue[i]) >= taskQueue[i].minInterval

\* C7: a task that has never run is eligible at every tick at which it is
\* not running, whatever the clock reads.
C7_NeverRunIsEligible ==
    \A i \in Tasks :
        (ticks > 0 /\ taskQueue[i].lastRun = Undefined /\ ~taskQueue[i].isRunning)
            => Eligible(taskQueue[i], now)

\* C8: lastRun does not change while the body is executing, and in the state
\* where isRunning has been cleared lastRun already holds the completion
\* time, for a body that returned as for one that threw.
C8_LastRunThenIdle ==
    [][\A i \in Tasks :
          /\ (taskQueue[i].isRunning /\ taskQueue'[i].isRunning)
                => taskQueue'[i].lastRun = taskQueue[i].lastRun
          /\ (taskQueue[i].isRunning /\ ~taskQueue'[i].isRunning)
                => taskQueue'[i].lastRun = now']_vars

\* A body that spanned at least one tick threw and the task is idle again.
C8_Witness ==
    \E i \in Tasks :
        /\ bodyOutcome[i] = "threw"
        /\ ~taskQueue[i].isRunning
        /\ lastEnd[i] > lastStart[i]
        /\ taskQueue[i].lastRun = lastEnd[i]

\* C9: while a body that never resolves is outstanding, no later tick starts
\* any task.
C9_HungBlocksScheduler ==
    [][hung # {} => \A i \in Tasks : pending'[i] <= pending[i]]_vars

\* Number of consecutive ticks, up to the latest one, that found task j
\* eligible and selected another task.
PassedOver(j) ==
    LET firstTick == now - (ticks - 1) * TickPeriod
        due == LastRunOrZero(taskQueue[j]) + taskQueue[j].minInterval
        since == IF due > firstTick THEN due ELSE firstTick
    IN  IF ticks = 0 \/ ~Eligible(taskQueue[j], now) THEN 0
        ELSE (now - since) \div TickPeriod + 1

C11_OnlySelectedTaskChanges ==
    [][\A j \in Tasks :
          taskQueue'[j] # taskQueue[j] => (Selects(j) \/ Settles(j))]_vars

\* The body of a task has just thrown while another task, selected before,
\* is still marked running.
C11_Witness ==
    \E i \in Tasks : \E j \in Tasks \ {i} :
        /\ bodyOutcome[i] = "threw"
        /\ lastEnd[i] = now
        /\ pending[i] = 0
        /\ pending[j] = 1
        /\ taskQueue[j].isRunning
        /\ lastStart[j] < lastEnd[i]

\* C12: a tick at which no task is eligible has no side effect: no body is
\* started, and the registry (lastRun and isRunning of every task) and the
\* fields of the client are as before.
C12_IdleTickChangesNothing ==
    [][(ticks' = ticks + 1 /\ \A i \in Tasks : ~Eligible(taskQueue[i], now')) =>
          /\ taskQueue' = taskQueue
          /\ pending' = pending
          /\ lastStart' = lastStart
          /\ eligibleTask' = 0
          /\ lastProcessedTimestamp' = lastProcessedTimestamp
          /\ lastAgentChatMessageId' = lastAgentChatMessageId]_vars

\* A tick has found no eligible task: one task is running and the others
\* are inside their intervals.
C12_Witness ==
    /\ ticks > 0
    /\ eligibleTask = 0
    /\ \E i \in Tasks : taskQueue[i].isRunning
    /\ \A i \in Tasks : ~Eligible(taskQueue[i], now)

\* The fields of the client a run of the named task reads or writes:
\* readChatAndReply passes lastProcessedTimestamp to fetchUnreadComments and
\* assigns it; readAgentChatAndReply compares and assigns
\* lastAgentChatMessageId and assigns lastProcessedTimestamp.
Accesses(name) ==
    CASE name = "readChatAndReply" -> {"lastProcessedTimestamp"}
      [] name = "readAgentChatAndReply" ->
            {"lastAgentChatMessageId", "lastProcessedTimestamp"}
      [] OTHER -> {}

\* The tasks with a body in flight.
InFlight == {i \in Tasks : pending[i] > 0}

\* C16: lastProcessedTimestamp and lastAgentChatMessageId are never accessed
\* concurrently: no two bodies in flight at the same time read or write the
\* same one of them.
C16_NoConcurrentAccess ==
    /\ \A a \in InFlight : \A b \in InFlight \ {a} :
          Accesses(taskQueue[a].name) \cap Accesses(taskQueue[b].name) = {}
    /\ \A a \in InFlight : pending[a] > 1 => Accesses(taskQueue[a].name) = {}

\* ------------------------------------------- properties of one invocation
\* The calls of the followed invocation, in order.
Trace == IF run = NoRun THEN <<>> ELSE run.trace

\* The followed invocation ran the named task.
Ran(name) == run # NoRun /\ run.name = name

\* Calls that hand a response to the streaming server or to the peer room.
PublishOps == {"publish", "postRoomMessage"}

\* C13: every error raised inside any of the seven task bodies is caught
\* and logged inside that body: no body completes by throwing into
\* processNextTask.
C13_NoBodyThrows == run # NoRun => ~run.threw

\* C14: in every task that synthesizes speech (comment reply, gift, fresh
\* thought, peer room) a failed speech synthesis is not fatal: the body does
\* not throw and still goes on to publish the response for the same item,
\* without an audio URL.
C14_SpeechFailureIsNotFatal ==
    \A k \in 1..Len(Trace) :
        (Trace[k].op = "generateSpeech" /\ Trace[k].settles = "throws") =>
            /\ ~run.threw
            /\ \E m \in (k + 1)..Len(Trace) :
                  /\ Trace[m].op \in PublishOps
                  /\ Trace[m].ids = Trace[k].ids
                  /\ ~Trace[m].audio

\* C15: lastProcessedTimestamp is written only by the comment task and
\* lastAgentChatMessageId only by the peer-room task.
C15_FieldsWrittenByOwnerOnly ==
    [][/\ lastProcessedTimestamp' # lastProcessedTimestamp =>
             run'.name = "readChatAndReply"
       /\ lastAgentChatMessageId' # lastAgentChatMessageId =>
             run'.name = "readAgentChatAndReply"]_vars

\* C17: every invocation of the comment task leaves lastProcessedTimestamp
\* at the current time, whatever the size of the batch and also when the
\* fetch failed.
C17_WatermarkAlwaysAdvances ==
    Ran("readChatAndReply") => lastProcessedTimestamp = now

\* A generation call of the followed invocation failed: it threw, or the
\* response it returned was absent.
GenerationFailed ==
    \/ \E k \in 1..Len(Trace) :
          /\ Trace[k].op \in {"generateText:select", "generateMessageResponse",
                              "generateText:animation"}
          /\ Trace[k].settles = "throws"
    \/ /\ Called(Trace, "generateMessageResponse")
       /\ run.env.reply = "none"

\* C18: when a generation failure aborts an invocation of the comment task,
\* lastProcessedTimestamp is still set to the current time and the
\* scheduler's bookkeeping is still updated (lastRun set, isRunning cleared).
C18_FailureStillAdvances ==
    (Ran("readChatAndReply") /\ GenerationFailed) =>
        /\ lastProcessedTimestamp = now
        /\ taskQueue[eligibleTask].lastRun = now
        /\ ~taskQueue[eligibleTask].isRunning

\* C19: a batch of exactly one comment is selected without asking the
\* generation service: no selection call is made and the reply is prepared
\* for that comment.
C19_SingleCommentAutoSelected ==
    (Ran("readChatAndReply") /\ Len(FetchUnreadComments(run.env)) = 1) =>
        /\ ~Called(Trace, "generateText:select")
        /\ \E k \in 1..Len(Trace) :
              Trace[k].op = "ensureConnection" /\ Trace[k].ids = {CommentId(1)}

\* A batch of one comment was answered and the answer published.
C19_Witness ==
    /\ Ran("readChatAndReply")
    /\ Len(FetchUnreadComments(run.env)) = 1
    /\ \E k \in 1..Len(Trace) :
          Trace[k].op = "publish" /\ Trace[k].ids = {CommentId(1)}

\* C20: an empty batch of comments leads to no selection, no generation
\* call, no publish and no mark-read: the fetch is the only call made, and the
\* only field that changes is lastProcessedTimestamp, set to the current time.
C20_EmptyBatchOnlyMovesWatermark ==
    [][(run'.name = "readChatAndReply" /\ Len(FetchUnreadComments(run'.env)) = 0) =>
          /\ Ops(run'.trace) = {"fetchUnreadComments"}
          /\ ~run'.threw
          /\ lastProcessedTimestamp' = now'
          /\ lastAgentChatMessageId' = lastAgentChatMessageId]_vars

\* The comment task ran on an empty batch that the server returned, and
\* the watermark moved.
C20_Witness ==
    /\ Ran("readChatAndReply")
    /\ run.env.fetch = "ok"
    /\ run.env.n = 0
    /\ lastProcessedTimestamp = now
    /\ lastProcessedTimestamp > LateStart

\* The calls of a reply to a comment.
ReplyOps == {"generateMessageResponse", "generateText:animation",
             "generateSpeech", "publish"}

\* C21: with a batch of several comments, every call of the reply is about
\* the comment whose id the generation service returned; when the service
\* answers NONE, or an id that is not in the batch, or fails, no reply is
\* generated and none is published.
C21_ReplyGoesToSelected ==
    (Ran("readChatAndReply") /\ Len(FetchUnreadComments(run.env)) > 1) =>
        \A k \in 1..Len(Trace) :
            Trace[k].op \in ReplyOps =>
                /\ run.env.select \in Range(FetchUnreadComments(run.env))
                /\ Trace[k].ids = {run.env.select}

\* The service picked the second comment of two and the reply to it went out.
C21_Witness ==
    /\ Ran("readChatAndReply")
    /\ Len(FetchUnreadComments(run.env)) = 2
    /\ run.env.select = CommentId(2)
    /\ \E k \in 1..Len(Trace) :
          Trace[k].op = "publish" /\ Trace[k].ids = {CommentId(2)}

\* The positions of the trace at which op is called.
CallsOf(op) == {k \in 1..Len(Trace) : Trace[k].op = op}

\* C22: a non-empty batch is marked read by exactly one call, which carries
\* the ids of all its comments, whichever comment is selected and whether or
\* not the reply goes through.
C22_BatchMarkedReadOnce ==
    (Ran("readChatAndReply") /\ Len(FetchUnreadComments(run.env)) > 0) =>
        /\ Cardinality(CallsOf("markCommentsAsRead")) = 1
        /\ \A k \in CallsOf("markCommentsAsRead") :
              Trace[k].ids = Range(FetchUnreadComments(run.env))

\* Two comments, none selected, both marked read.
C22_Witness ==
    /\ Ran("readChatAndReply")
    /\ Len(FetchUnreadComments(run.env)) = 2
    /\ run.env.select = "NONE"
    /\ ~Called(Trace, "publish")
    /\ \E k \in CallsOf("markCommentsAsRead") :
          Trace[k].ids = {CommentId(1), CommentId(2)}

\* The gifts of the batch the run fetched, by position.
Gifts == IF run # NoRun /\ run.name = "readGifts" THEN run.env.gifts ELSE <<>>

\* The positions of the trace at which op is called about item id.
CallsAbout(op, id) == {k \in CallsOf(op) : id \in Trace[k].ids}

\* C23: a gift is marked read if and only if the publish of its response
\* succeeded; the call comes after that publish and carries the id of that
\* gift alone.  A gift whose response was not generated or not published is
\* not marked read.
C23_GiftMarkedReadIffPublished ==
    \A j \in 1..Len(Gifts) :
        LET published == {m \in CallsAbout("publish", GiftId(j)) :
                             Gifts[j].publish = "200"}
        IN  /\ CallsAbout("markGiftsAsRead", GiftId(j)) # {} <=> published # {}
            /\ \A k \in CallsAbout("markGiftsAsRead", GiftId(j)) :
                  /\ Trace[k].ids = {GiftId(j)}
                  /\ \E m \in published : m < k

\* The publish of the first gift is refused and the gift stays unread; the
\* second is published and marked read.
C23_Witness ==
    /\ Len(Gifts) = 2
    /\ Gifts[1].publish = "500"
    /\ CallsAbout("publish", GiftId(1)) # {}
    /\ CallsAbout("markGiftsAsRead", GiftId(1)) = {}
    /\ CallsAbout("markGiftsAsRead", GiftId(2)) # {}

\* The processing of the j-th gift got to the speech step: its response was
\* generated and parsed.
ReachedSpeechStep(j) ==
    /\ CallsAbout("generateText:gift", GiftId(j)) # {}
    /\ Gifts[j].generate = "ok"

\* C24: once the processing of a gift gets to the speech step, speech is
\* synthesized for an 'Ice Cream' gift whatever the draw gives, and for any
\* other gift exactly when the draw succeeds.
C24_IceCreamAlwaysSpoken ==
    \A j \in 1..Len(Gifts) :
        ReachedSpeechStep(j) =>
            IF Gifts[j].name = "Ice Cream"
            THEN CallsAbout("generateSpeech", GiftId(j)) # {}
            ELSE CallsAbout("generateSpeech", GiftId(j)) # {} <=> Gifts[j].draw

\* An 'Ice Cream' gift is spoken though its draw failed, and another gift
\* whose draw failed goes out without speech.
C24_Witness ==
    /\ Len(Gifts) = 2
    /\ Gifts[1].name = "Ice Cream" /\ ~Gifts[1].draw
    /\ CallsAbout("generateSpeech", GiftId(1)) # {}
    /\ Gifts[2].name = "Rose" /\ ~Gifts[2].draw
    /\ CallsAbout("generateSpeech", GiftId(2)) = {}
    /\ CallsAbout("publish", GiftId(2)) # {}

\* The run the step makes found messages in the peer room.
ReadsRoom ==
    /\ run'.name = "readAgentChatAndReply"
    /\ run'.env.isInChat
    /\ run'.env.fetch = "ok"
    /\ run'.env.messages > 0

\* The run the step makes generates no reply and posts nothing to the room.
PostsNothing ==
    Ops(run'.trace) \cap (PublishOps \cup {"generateText:peer", "generateSpeech"}) = {}

\* C25: when the latest message of the peer room was written by this agent,
\* the job leaves lastAgentChatMessageId equal to the id of that message and
\* publishes nothing; when the id of the latest message is already the value
\* of lastAgentChatMessageId, the job publishes nothing and leaves the field
\* as it was.
C25_SkipsOwnAndProcessedMessages ==
    [][ReadsRoom =>
          /\ run'.env.author = "self" =>
                /\ lastAgentChatMessageId' =
                       LatestMessageId(run'.env, lastAgentChatMessageId)
                /\ PostsNothing
          /\ LatestMessageId(run'.env, lastAgentChatMessageId) = lastAgentChatMessageId =>
                /\ lastAgentChatMessageId' = lastAgentChatMessageId
                /\ PostsNothing]_vars

\* The latest message is a new one of the agent itself: its id is recorded
\* and nothing is posted.
C25_Witness ==
    /\ Ran("readAgentChatAndReply")
    /\ run.env.isInChat /\ run.env.fetch = "ok" /\ run.env.messages > 0
    /\ run.env.author = "self" /\ run.env.latest = "new"
    /\ lastAgentChatMessageId # Null
    /\ Ops(Trace) = {"fetchRoomMessages"}

\* The generated texts that name an animation of getAllAnimations() up to
\* surrounding white space and letter case: floating and capoeira.  "sitting"
\* names a pose of the group getAllAnimations() leaves out.
CataloguedTexts == {"floating", " Floating\n", "CAPOEIRA"}

\* C26: the periodic animation job publishes if and only if the generated
\* value, trimmed and lower-cased, is in the catalog, and what it publishes
\* is an animation of the catalog; for any other value there is no publish
\* call at all, so no fallback animation either.
C26_PublishesOnlyCataloguedAnimation ==
    (Ran("generatePeriodicAnimation") /\ run.env.generate # "throws") =>
        /\ Called(Trace, "publishAnimation") <=> run.env.generate \in CataloguedTexts
        /\ \A k \in CallsOf("publishAnimation") : Trace[k].ids \subseteq AllAnimations
        /\ ~Called(Trace, "publish")

\* "flying" is generated: the job ends after the generation.
C26_Witness ==
    /\ Ran("generatePeriodicAnimation")
    /\ run.env.generate = "flying"
    /\ Ops(Trace) = {"generateText:periodicAnimation"}

\* C28: for every task, isRunning is true exactly while an invocation of
\* its body started by a tick has not completed.
C28_RunningIffBodyOutstanding ==
    \A i \in Tasks : taskQueue[i].isRunning <=> i \in InFlight

\* One task has completed a run and is idle while the body of another is
\* outstanding.
C28_Witness ==
    \E i, j \in Tasks :
        /\ i \in InFlight /\ taskQueue[i].isRunning
        /\ j \notin InFlight /\ ~taskQueue[j].isRunning
        /\ lastEnd[j] # Undefined /\ lastEnd[j] > lastStart[j]

\* C29: minInterval is counted from the end of a run: a task that has
\* completed a run, by returning or by throwing, is not selected again
\* before minInterval has passed since that completion.
C29_IntervalCountsFromCompletion ==
    [][\A i \in Tasks :
          (Selects(i) /\ lastEnd[i] # Undefined) =>
              /\ taskQueue[i].lastRun = lastEnd[i]
              /\ now' - lastEnd[i] >= taskQueue[i].minInterval]_vars

\* A task whose previous run spanned a tick and threw is selected again at
\* the first tick its interval allows.
C29_Witness ==
    \E i \in Tasks :
        /\ i \in InFlight
        /\ bodyOutcome[i] = "threw"
        /\ lastEnd[i] # Undefined
        /\ lastStart[i] - lastEnd[i] \in
               taskQueue[i].minInterval .. taskQueue[i].minInterval + TickPeriod - 1

\* The calls that mark comments or gifts read.
MarkReadOps == {"markCommentsAsRead", "markGiftsAsRead"}

\* C30: within one invocation every mark-as-read call comes after a publish
\* of a response, for comments as for gifts.
C30_MarkReadAfterPublish ==
    \A k \in 1..Len(Trace) :
        Trace[k].op \in MarkReadOps =>
            \E m \in 1..(k - 1) : Trace[m].op = "publish"

\* C27: the timer set by the constructor is never cancelled, a call of stop
\* changes no field of the client and no bookkeeping of the scheduler, and
\* the ticks after a call of stop select tasks as the predicate of find
\* says, stop or no stop.
C27_StopIsNoOp ==
    /\ [](taskInterval = "set")
    /\ [][(stopped # "called" /\ stopped' = "called") => UNCHANGED clientVars]_vars
    /\ [][(stopped # "no" /\ ticks' = ticks + 1) =>
             eligibleTask' = Find(taskQueue, now')]_vars

\* A task was selected by a tick later than a call of stop, and its body has
\* completed.
C27_Witness ==
    \E i \in Tasks :
        /\ stopped = "ticked"
        /\ eligibleTask = i
        /\ lastStart[i] = now
        /\ lastEnd[i] = now
        /\ ~taskQueue[i].isRunning

\* C31: every gift of the fetched batch is processed, whatever happened to
\* the gifts before it: the generation of its response is at least started.
C31_EveryGiftIsProcessed ==
    \A j \in 1..Len(Gifts) : CallsAbout("generateText:gift", GiftId(j)) # {}

\* The position in the batch of the gift a call is about, 0 for a call
\* about no gift.
GiftOf(k) ==
    IF \E j \in 1..Len(Gifts) : GiftId(j) \in Trace[k].ids
    THEN CHOOSE j \in 1..Len(Gifts) : GiftId(j) \in Trace[k].ids
    ELSE 0

\* C32: within one invocation of the gift job the calls about the gifts come
\* in batch order, all the calls about one gift before the first call about
\* the next: the steps of two gifts are never interleaved.
C32_GiftsOneAfterAnother ==
    \A k, m \in 1..Len(Trace) :
        (k < m /\ GiftOf(k) # 0 /\ GiftOf(m) # 0) => GiftOf(k) <= GiftOf(m)

\* Two gifts, each taken through to its mark-as-read call.
C32_Witness ==
    /\ Len(Gifts) = 2
    /\ CallsAbout("markGiftsAsRead", GiftId(1)) # {}
    /\ CallsAbout("markGiftsAsRead", GiftId(2)) # {}
    /\ Len(Trace) >= 9

\* C33: when the fresh-thought job has generated a thought and the speech
\* synthesis fails, the thought is published all the same, once, after the
\* failed synthesis and without an audio URL.
C33_ThoughtPublishedWithoutSpeech ==
    (/\ Ran("generateFreshThought")
     /\ run.env.thought = "ok"
     /\ run.env.speech = "throws") =>
        /\ Cardinality(CallsOf("publish")) = 1
        /\ \A m \in CallsOf("publish") :
              /\ ~Trace[m].audio
              /\ \E k \in CallsOf("generateSpeech") :
                    k < m /\ Trace[k].settles = "throws"

\* The synthesis failed and the thought went out without audio.
C33_Witness ==
    /\ Ran("generateFreshThought")
    /\ run.env.thought = "ok"
    /\ run.env.speech = "throws"
    /\ run.env.publish = "200"
    /\ \E m \in CallsOf("publish") : ~Trace[m].audio

\* C34: when isInChat is not set the peer-room job does nothing: it makes no
\* call at all (no fetch of the room, no generation, no post) and leaves
\* lastAgentChatMessageId and lastProcessedTimestamp as they were.
C34_NotInChatDoesNothing ==
    [][(run'.name = "readAgentChatAndReply" /\ ~run'.env.isInChat) =>
          /\ run'.trace = << >>
          /\ ~run'.threw
          /\ lastAgentChatMessageId' = lastAgentChatMessageId
          /\ lastProcessedTimestamp' = lastProcessedTimestamp]_vars

\* The room holds a new message of a peer that could be answered; the flag
\* is not set and nothing is called.
C34_Witness ==
    /\ Ran("readAgentChatAndReply")
    /\ ~run.env.isInChat
    /\ run.env.fetch = "ok" /\ run.env.messages > 0
    /\ run.env.latest = "new" /\ run.env.author = "peer"
    /\ run.env.reply = "ok" /\ run.env.post = "ok"
    /\ Trace = << >>
    /\ lastProcessedTimestamp < now

\* The run the step makes found a latest message that is neither processed
\* already nor written by the agent itself.
AnswersPeer ==
    /\ ReadsRoom
    /\ run'.env.author = "peer"
    /\ LatestMessageId(run'.env, lastAgentChatMessageId) # lastAgentChatMessageId

\* The posts of the run the step makes that returned.
PostsMade ==
    {k \in 1..Len(run'.trace) :
        /\ run'.trace[k].op = "postRoomMessage"
        /\ run'.trace[k].settles = "ok"}

\* C35: for a latest message that is neither processed nor the agent's own,
\* a generated reply is posted with postRoomMessage, about that message, and
\* never through the generic response endpoint; lastAgentChatMessageId
\* becomes the id of that message when the post has returned and otherwise
\* keeps its value.  When the reply cannot be parsed nothing is posted and
\* lastAgentChatMessageId keeps its value.
C35_PostsToRoomThenRecords ==
    [][AnswersPeer =>
          /\ ~Called(run'.trace, "publish")
          /\ \A k \in 1..Len(run'.trace) :
                run'.trace[k].op = "postRoomMessage" =>
                    /\ run'.env.reply = "ok"
                    /\ run'.trace[k].ids =
                          {LatestMessageId(run'.env, lastAgentChatMessageId)}
          /\ run'.env.reply = "ok" => Called(run'.trace, "postRoomMessage")
          /\ lastAgentChatMessageId' =
                IF PostsMade # {}
                THEN LatestMessageId(run'.env, lastAgentChatMessageId)
                ELSE lastAgentChatMessageId]_vars

\* A reply to a new message of a peer was posted and the id recorded.
C35_Witness ==
    /\ Ran("readAgentChatAndReply")
    /\ run.env.author = "peer" /\ run.env.latest = "new" /\ run.env.reply = "ok"
    /\ \E k \in CallsOf("postRoomMessage") :
          /\ Trace[k].settles = "ok"
          /\ Trace[k].ids = {lastAgentChatMessageId}

\* The clock reading at construction.
StartedAt == now - ticks * TickPeriod

C37_AtMostOneReply == \A c \in CommentIds : inbox.replies[c] <= 1

\* A comment was replied to and the server failed to mark it read; a later
\* fetch has returned the other comment without it.
C37_Witness ==
    \E c \in CommentIds :
        /\ inbox.replies[c] = 1
        /\ c \notin inbox.read
        /\ inbox.busy
        /\ inbox.batch # {}
        /\ c \notin inbox.batch

\* C38: the watermark skips no comment: with fetches that all succeed,
\* every comment written before the time the watermark stands at has been
\* returned by some fetch.
C38_WatermarkSkipsNoComment ==
    \A c \in CommentIds :
        (inbox.created[c] # Undefined /\ inbox.created[c] < lastProcessedTimestamp)
            => c \in inbox.fetched

\* C39: over the invocations of the peer job on a room that only grows, the
\* agent posts at most one reply while a given message is the latest of the
\* room, and posts no reply in an invocation whose fetch has a message of
\* the agent itself as the latest.
C39_OneReplyPerLatestMessage ==
    /\ [](\A k \in 1..MaxRoom : room.posts[k] <= 1)
    /\ [][\A k \in 1..MaxRoom :
            room.posts'[k] > room.posts[k]
                => (k = Len(room.authors) /\ room.authors[k] = "peer")]_vars

\* The agent replied to the first message, its reply reached the room, and a
\* later invocation found that reply as the latest message and recorded it.
C39_Witness ==
    /\ Len(room.authors) >= 2
    /\ room.authors[1] = "peer"
    /\ room.authors[2] = "self"
    /\ room.posts[1] = 1
    /\ lastAgentChatMessageId = RoomId(2)

====
